---- MODULE Spec2Model ----
(***************************************************************************)
(* GitHub webhook relay (src/GIT-WEBHOOK.py): signature verification, JSON *)
(* parsing, event formatting, and the Telegram notifier with its message   *)
(* splitting.                                                              *)
(*                                                                         *)
(* Text.  A Python str is modelled as a sequence of units.  A unit is a    *)
(* tuple of tokens and counts as ONE character for len(), slicing, rfind   *)
(* and lstrip.  <<"\n">> and <<" ">> are the whitespace characters; every  *)
(* other unit is a newline-free run of text (a formatted line, or a plain  *)
(* character such as <<"a">>).  MAX_MESSAGE_LENGTH is scaled down          *)
(* accordingly (4096 in the source).  The Markdown backquotes of the       *)
(* message templates are left out of the literal tokens.                   *)
(***************************************************************************)
EXTENDS Integers, Sequences, FiniteSets, TLC

\* Scaled-down Telegram limit (src/GIT-WEBHOOK.py:27 sets 4096).
MAX_MESSAGE_LENGTH == 5

\* Largest number of commits in a push payload.
MaxCommits == 7

\* Longest text handed directly to send_message.
MaxTextLen == MAX_MESSAGE_LENGTH + 3

VARIABLES
    secret,     \* GITHUB_WEBHOOK_SECRET, read once at start
    pc,         \* position of the request handler / of send_message
    request,    \* the inbound request: event header, signature header, body
    sigOk,      \* result of verify_github_signature for this request
    payload,    \* result of request.get_json(force=True)
    message,    \* the text argument of send_message
    text,       \* _split_message: the remaining text
    messages,   \* _split_message: the chunks; send_message: the list looped over
    idx,        \* send_message: index of the next chunk to send (1-based)
    outbound,   \* the requests.post calls issued, in order, with their outcome
    status,     \* HTTP status of the response (0: none yet)
    log         \* the steps the handler has taken, in order

vars == <<secret, pc, request, sigOk, payload, message, text, messages, idx,
          outbound, status, log>>

----------------------------------------------------------------------------
(* Strings *)

NL == <<"\n">>
SP == <<" ">>
Whitespace == {NL, SP}

Min(a, b) == IF a < b THEN a ELSE b

SetMax(S) == CHOOSE x \in S : \A y \in S : y <= x

\* s[a:] for a 0-based index a
SliceFrom(s, a) == SubSeq(s, a + 1, Len(s))

\* s[:b] for a 0-based index b
SliceTo(s, b) == SubSeq(s, 1, Min(b, Len(s)))

\* text.rfind('\n', 0, end): the highest 0-based index below end holding a
\* newline, -1 when there is none.
rfind_newline(s, end) ==
    LET hits == {i \in 0..(Min(end, Len(s)) - 1) : s[i + 1] = NL}
    IN  IF hits = {} THEN -1 ELSE SetMax(hits)

\* A faulty lstrip: also removes the first non-whitespace character.
RECURSIVE lstrip_greedy(_)
lstrip_greedy(s) ==
    IF s = <<>> THEN s
    ELSE IF Head(s) \in Whitespace THEN lstrip_greedy(Tail(s))
    ELSE Tail(s)

\* str.lstrip(): removes the leading whitespace characters.
RECURSIVE lstrip(_)
lstrip(s) ==
    IF s # <<>> /\ Head(s) \in Whitespace THEN lstrip(Tail(s)) ELSE s

\* The cut position chosen by one iteration of _split_message (lines 66-68).
split_index(s) ==
    LET i == rfind_newline(s, MAX_MESSAGE_LENGTH)
    IN  IF i = -1 THEN MAX_MESSAGE_LENGTH ELSE i

RECURSIVE Concat(_)
Concat(ss) == IF ss = <<>> THEN <<>> ELSE Head(ss) \o Concat(Tail(ss))

AllWhitespace(s) == \A i \in 1..Len(s) : s[i] \in Whitespace

\* s is chunks[1] w1 chunks[2] w2 ... chunks[n] wn with every wi a (possibly
\* empty) run of whitespace: the chunks, in order, with only whitespace
\* missing between them.
RECURSIVE Reassembles(_, _)
Reassembles(chunks, s) ==
    IF chunks = <<>> THEN AllWhitespace(s)
    ELSE LET c == Head(chunks)
         IN  /\ Len(c) <= Len(s)
             /\ SubSeq(s, 1, Len(c)) = c
             /\ \E k \in 0..(Len(s) - Len(c)) :
                    /\ AllWhitespace(SubSeq(s, Len(c) + 1, Len(c) + k))
                    /\ Reassembles(Tail(chunks), SliceFrom(s, Len(c) + k))

----------------------------------------------------------------------------
(* TelegramBot.send_message and its helpers *)

Chars == {<<"a">>, SP, NL}

RECURSIVE SeqsOfLen(_, _)
SeqsOfLen(S, n) ==
    IF n = 0 THEN {<<>>}
    ELSE {Append(s, x) : s \in SeqsOfLen(S, n - 1), x \in S}

Texts == UNION {SeqsOfLen(Chars, n) : n \in 0..MaxTextLen}

\* Outcomes of one requests.post + raise_for_status (lines 58-59).
Failures == {"transport_error", "timeout", "http_error"}

\* send_message, lines 37-44: choose between the split path and a single send.
SendMessageEnter ==
    /\ pc = "send_message"
    /\ IF Len(message) > MAX_MESSAGE_LENGTH
       THEN /\ pc' = "split"
            /\ text' = message
            /\ messages' = <<>>
       ELSE /\ pc' = "send"
            /\ text' = <<>>
            /\ messages' = <<message>>
    /\ idx' = 1
    /\ UNCHANGED <<secret, request, sigOk, payload, message, outbound, status, log>>

\* _split_message, one iteration of the while loop (lines 65-70).
SplitStep ==
    /\ pc = "split"
    /\ Len(text) > MAX_MESSAGE_LENGTH
    /\ messages' = Append(messages, SliceTo(text, split_index(text)))
    /\ text' = lstrip(SliceFrom(text, split_index(text)))
    /\ UNCHANGED <<secret, pc, request, sigOk, payload, message, idx, outbound,
                   status, log>>

\* _split_message, loop exit and return (lines 71-73).
SplitReturn ==
    /\ pc = "split"
    /\ Len(text) <= MAX_MESSAGE_LENGTH
    /\ messages' = IF text # <<>> THEN Append(messages, text) ELSE messages
    /\ pc' = "send"
    /\ UNCHANGED <<secret, request, sigOk, payload, message, text, idx, outbound,
                   status, log>>

\* _send_single_message succeeds (lines 48-60); the loop moves on.
SendChunkOk ==
    /\ pc = "send"
    /\ idx <= Len(messages)
    /\ outbound' = Append(outbound, [text |-> messages[idx], outcome |-> "ok"])
    /\ idx' = idx + 1
    /\ UNCHANGED <<secret, pc, request, sigOk, payload, message, text, messages,
                   status, log>>

\* A faulty handler: the exception leaves send_message and reaches the
\* webhook's outer except clause.
SendChunkFailPropagates ==
    /\ pc = "send"
    /\ idx <= Len(messages)
    /\ \E f \in Failures :
           outbound' = Append(outbound, [text |-> messages[idx], outcome |-> f])
    /\ pc' = "done"
    /\ status' = 500
    /\ UNCHANGED <<secret, request, sigOk, payload, message, text, messages, idx, log>>

\* requests.post or raise_for_status raises (lines 58-59): the exception leaves
\* the for loop and is caught and logged by send_message (lines 45-46), which
\* then returns.
SendChunkFail ==
    /\ pc = "send"
    /\ idx <= Len(messages)
    /\ \E f \in Failures :
           outbound' = Append(outbound, [text |-> messages[idx], outcome |-> f])
    /\ pc' = "returned"
    /\ UNCHANGED <<secret, request, sigOk, payload, message, text, messages, idx,
                   status, log>>

\* The for loop of send_message is exhausted; send_message returns.
SendReturn ==
    /\ pc = "send"
    /\ idx > Len(messages)
    /\ pc' = "returned"
    /\ UNCHANGED <<secret, request, sigOk, payload, message, text, messages, idx,
                   outbound, status, log>>

----------------------------------------------------------------------------
(* Requests *)

NoRequest ==
    [event |-> "none",
     signature |-> [kind |-> "absent", prefix |-> "", key |-> "", msg |-> "none"],
     body |-> "none"]

\* GITHUB_WEBHOOK_SECRET: unset, set to the empty string, or set.
Secrets == {"none", "", "k1"}

Keys == {"k1", "k2"}

NoPayload ==
    [kind |-> "none", action |-> "absent", merged |-> FALSE, title |-> "",
     repository |-> "absent", ncommits |-> 0]

\* A JSON object in which every field the handlers read is present and
\* well-typed, with no action.
BasePayload ==
    [kind |-> "object", action |-> "absent", merged |-> FALSE, title |-> "Fix",
     repository |-> "object", ncommits |-> 0]

\* Valid JSON that is not an object (a list, a string, null).
ArrayPayload == [NoPayload EXCEPT !.kind = "array"]

Events == {"push", "issues", "pull_request", "release", "star", "ping", "absent"}

Handled == {"push", "issues", "pull_request", "release", "star"}

\* The payloads tried with each event type: the fields its handler reads vary.
\* repository is "object", "absent" (the key is missing) or "null" (the key
\* holds JSON null, so payload.get("repository", {}) is None).
PayloadsFor(e) ==
    {ArrayPayload} \cup
    CASE e = "push" ->
           {[BasePayload EXCEPT !.ncommits = n, !.repository = r] :
                n \in 0..MaxCommits, r \in {"object", "absent", "null"}}
      [] e = "issues" ->
           {[BasePayload EXCEPT !.action = a, !.repository = r] :
                a \in {"opened", "closed", "edited", "absent"},
                r \in {"object", "null"}}
      [] e = "pull_request" ->
           {[BasePayload EXCEPT !.action = a, !.merged = m, !.title = t] :
                a \in {"opened", "closed", "merged", "synchronize", "absent"},
                m \in BOOLEAN, t \in {"Fix", "closed", "x"}}
           \cup {[BasePayload EXCEPT !.action = "closed", !.merged = TRUE,
                                     !.repository = "null"]}
      [] e = "release" ->
           {[BasePayload EXCEPT !.action = a, !.repository = r] :
                a \in {"published", "created", "absent"}, r \in {"object", "null"}}
      [] e = "star" ->
           {[BasePayload EXCEPT !.action = a, !.repository = r] :
                a \in {"created", "deleted", "absent"}, r \in {"object", "null"}}
      [] OTHER -> {BasePayload}

\* A request body: bytes that parse as JSON to .json, or do not parse.
BodiesFor(e) ==
    {[valid |-> TRUE, json |-> p] : p \in PayloadsFor(e)}
    \cup {[valid |-> FALSE, json |-> NoPayload]}

\* Some other byte string than b.
Tampered(b) == [b EXCEPT !.valid = ~@]

NoBody == [valid |-> FALSE, json |-> NoPayload]

NoSignature == [kind |-> "absent", prefix |-> "", key |-> "", msg |-> NoBody]

\* prefix + hmac.new(key, msg, sha256).hexdigest(): the digest is the symbolic
\* term (key, msg); two digests are equal iff key and message are.
Signed(prefix, key, msg) ==
    [kind |-> "value", prefix |-> prefix, key |-> key, msg |-> msg]

\* The X-Hub-Signature-256 header values tried with body b: absent, empty,
\* a value with a non-ASCII character, and digests under the right or a wrong
\* prefix, key and body.
SignaturesFor(b) ==
    {NoSignature, [NoSignature EXCEPT !.kind = "empty"],
     [NoSignature EXCEPT !.kind = "nonascii"]}
    \cup {Signed(p, k, m) : p \in {"sha256=", "sha1="}, k \in Keys,
                            m \in {b, Tampered(b)}}

----------------------------------------------------------------------------
(* verify_github_signature *)

\* hmac.compare_digest on two ASCII strings.
compare_digest(a, b) == a = b

\* verify_github_signature (lines 78-93) with GITHUB_WEBHOOK_SECRET = sec.
verify_github_signature(sec, body, signature_header) ==
    IF sec \in {"none", ""} \/ signature_header.kind \in {"absent", "empty"}
    THEN TRUE
    ELSE IF signature_header.kind = "nonascii"
         THEN FALSE    \* compare_digest raises TypeError, caught at line 91
         ELSE compare_digest(Signed("sha256=", sec, body), signature_header)

----------------------------------------------------------------------------
(* Event formatters *)

\* The number of commits format_commit_info lists (lines 101, 107, 108).
CommitLimit == 5

DigitTokens == <<"0", "1", "2", "3", "4", "5", "6", "7", "8", "9">>

\* str(n) as tokens, for 0 <= n <= 99.
Str(n) ==
    IF n < 10 THEN <<DigitTokens[n + 1]>>
    ELSE <<DigitTokens[(n \div 10) + 1], DigitTokens[(n % 10) + 1]>>

\* '\n'.join(lines)
RECURSIVE JoinNL(_)
JoinNL(lines) ==
    IF lines = <<>> THEN <<>>
    ELSE IF Len(lines) = 1 THEN <<lines[1]>>
    ELSE <<lines[1], NL>> \o JoinNL(Tail(lines))

\* payload["commits"] of a push with n commits.
Commits(n) ==
    [i \in 1..n |-> [id |-> <<"c">> \o Str(i), message |-> "msg", author |-> "alice"]]

\* One commit line (line 105).
CommitLine(c) == <<"* ">> \o c.id \o <<" ", c.message, " - ", c.author>>

\* The summary line (line 108).
MoreLine(k) == <<"... and ">> \o Str(k) \o <<" more commits">>

\* A faulty format_commit_info: the summary counts all the commits.
format_commit_info_total(commits) ==
    IF commits = <<>> THEN <<>>
    ELSE LET first == SubSeq(commits, 1, Min(CommitLimit, Len(commits)))
             commit_info == [i \in 1..Len(first) |-> CommitLine(first[i])]
         IN  JoinNL(IF Len(commits) > CommitLimit
                    THEN Append(commit_info, MoreLine(Len(commits)))
                    ELSE commit_info)

\* format_commit_info (lines 95-110).
format_commit_info(commits) ==
    IF commits = <<>> THEN <<>>
    ELSE LET first == SubSeq(commits, 1, Min(CommitLimit, Len(commits)))
             commit_info == [i \in 1..Len(first) |-> CommitLine(first[i])]
         IN  JoinNL(IF Len(commits) > CommitLimit
                    THEN Append(commit_info, MoreLine(Len(commits) - CommitLimit))
                    ELSE commit_info)

\* payload.get("repository", {}).get("full_name", "Unknown")
RepoName(p) == IF p.repository = "object" THEN "org/repo" ELSE "Unknown"

\* payload.get("action", "unknown")
ActionOf(p) == IF p.action = "absent" THEN "unknown" ELSE p.action

\* The message handle_push_event builds (lines 114-129).
push_message(p) ==
    LET commits == Commits(p.ncommits)
        commit_word == IF Len(commits) = 1 THEN "commit" ELSE "commits"
        header ==
            << <<"rocket", " *Push to ", RepoName(p), "*">>, NL,
               <<"memo", " ">> \o Str(Len(commits))
                   \o <<" ", commit_word, " by ", "alice", " to ", "main">>,
               NL, NL >>
    IN  IF commits # <<>>
        THEN header \o << <<"*Commits:*">>, NL >> \o format_commit_info(commits)
                    \o << NL, NL, <<"[View Changes](", "url", ")">> >>
        ELSE header

\* emoji_map.get(action, default) of handle_issues_event (lines 142-152).
issues_emoji(action) ==
    CASE action = "opened" -> "bug"
      [] action = "closed" -> "white_check_mark"
      [] action = "reopened" -> "arrows_counterclockwise"
      [] action \in {"assigned", "unassigned"} -> "bust_in_silhouette"
      [] action \in {"labeled", "unlabeled"} -> "label"
      [] OTHER -> "clipboard"

\* The message handle_issues_event builds (lines 134-156).
issues_message(p) ==
    << <<issues_emoji(ActionOf(p)), " *Issue ", ActionOf(p), "* in ", RepoName(p)>>, NL,
       <<"#", "7", ": [", p.title, "](", "url", ")">>, NL,
       <<"by ", "bob">> >>

\* emoji_map.get(action, default) of handle_pull_request_event (lines 170-179).
pr_emoji(action, merged) ==
    CASE action = "opened" -> "twisted_rightwards_arrows"
      [] action = "closed" -> IF merged THEN "white_check_mark" ELSE "x"
      [] action = "reopened" -> "arrows_counterclockwise"
      [] action = "merged" -> "tada"
      [] action \in {"ready_for_review", "review_requested"} -> "eyes"
      [] OTHER -> "twisted_rightwards_arrows"

\* message.replace(old, new); a token is replaced when it is old.
Replace(s, old, new) ==
    [i \in 1..Len(s) |-> [j \in 1..Len(s[i]) |-> IF s[i][j] = old THEN new ELSE s[i][j]]]

\* The message handle_pull_request_event builds (lines 163-189).
pr_message(p) ==
    LET action == ActionOf(p)
        m == << <<pr_emoji(action, p.merged), " *PR ", action, "* in ", RepoName(p)>>, NL,
                <<"#", "7", ": [", p.title, "](", "url", ")">>, NL,
                <<"by ", "bob">> >>
    IN  IF action = "closed" /\ p.merged
        THEN Replace(Replace(m, "closed", "merged"), "x", "tada")
        ELSE m

\* The message handle_release_event builds (lines 202-205).
release_message(p) ==
    << <<"tada", " *New Release* in ", RepoName(p)>>, NL,
       <<"package", " [", "v1", "](", "url", ")">>, NL,
       <<"Tag: ", "v1">> >>

\* The message handle_star_event builds (lines 215-218).
star_message(p) ==
    << <<"star", " *New Star* for ", RepoName(p)>>, NL,
       <<"Starred by ", "bob">>, NL,
       <<"Total stars: ", "3">> >>

\* A handler raises AttributeError on its first .get when the payload is not
\* an object, and on payload.get("repository", {}).get(...) when repository is
\* null (lines 114, 140, 168, 200, 210); every handler does so before it
\* reaches send_message.
HandlerRaises(e, p) == e \in Handled /\ (p.kind # "object" \/ p.repository = "null")

\* A faulty dispatch: release and star notify on every action.
HandlerSendsAlways(e, p) == e \in Handled

\* Whether the handler of event e reaches telegram_bot.send_message
\* (lines 131, 159, 191, 202-206, 215-219; 253-264).
HandlerSends(e, p) ==
    CASE e \in {"push", "issues", "pull_request"} -> TRUE
      [] e = "release" -> ActionOf(p) = "published"
      [] e = "star" -> ActionOf(p) = "created"
      [] OTHER -> FALSE

\* The text the handler of event e passes to send_message.
HandlerMessage(e, p) ==
    CASE e = "push" -> push_message(p)
      [] e = "issues" -> issues_message(p)
      [] e = "pull_request" -> pr_message(p)
      [] e = "release" -> release_message(p)
      [] e = "star" -> star_message(p)
      [] OTHER -> <<>>

----------------------------------------------------------------------------
(* POST /github-webhook *)

\* Flask hands the request to github_webhook (lines 226-235).
Receive ==
    /\ pc = "idle"
    /\ \E e \in Events : \E b \in BodiesFor(e) : \E s \in SignaturesFor(b) :
           request' = [event |-> e, signature |-> s, body |-> b]
    /\ pc' = "verify"
    /\ UNCHANGED <<secret, sigOk, payload, message, text, messages, idx, outbound,
                   status, log>>

\* A faulty handler: a bad signature is logged and the request goes on.
VerifyLogOnly ==
    /\ pc = "verify"
    /\ sigOk' = verify_github_signature(secret, request.body, request.signature)
    /\ log' = Append(log, "verify")
    /\ pc' = "parse"
    /\ UNCHANGED <<secret, request, payload, message, text, messages, idx, outbound,
                   status>>

\* Lines 238-241: verify the signature; 401 on failure.
Verify ==
    /\ pc = "verify"
    /\ sigOk' = verify_github_signature(secret, request.body, request.signature)
    /\ log' = Append(log, "verify")
    /\ IF sigOk'
       THEN pc' = "parse" /\ status' = status
       ELSE pc' = "done" /\ status' = 401
    /\ UNCHANGED <<secret, request, payload, message, text, messages, idx, outbound>>

\* A faulty handler: a body that does not parse is treated as an empty object.
ParseJsonLenient ==
    /\ pc = "parse"
    /\ log' = Append(log, "parse")
    /\ payload' = IF request.body.valid THEN request.body.json ELSE BasePayload
    /\ pc' = "dispatch"
    /\ UNCHANGED <<secret, request, sigOk, message, text, messages, idx, outbound,
                   status>>

\* Lines 243-248: request.get_json(force=True); 400 when it raises.
ParseJson ==
    /\ pc = "parse"
    /\ log' = Append(log, "parse")
    /\ IF request.body.valid
       THEN payload' = request.body.json /\ pc' = "dispatch" /\ status' = status
       ELSE payload' = payload /\ pc' = "done" /\ status' = 400
    /\ UNCHANGED <<secret, request, sigOk, message, text, messages, idx, outbound>>

\* Lines 252-266 with the handler's body up to its call of send_message:
\* an unhandled event type is logged and answered 200; a handler that raises
\* is answered 500 by the outer except (lines 271-273); a handler that has no
\* message to send returns and the request is answered 200.
Dispatch ==
    /\ pc = "dispatch"
    /\ LET e == request.event
       IN  IF e \notin Handled
           THEN /\ log' = Append(log, "unhandled")
                /\ pc' = "done" /\ status' = 200 /\ message' = message
           ELSE IF HandlerRaises(e, payload)
           THEN /\ log' = Append(log, "handle")
                /\ pc' = "done" /\ status' = 500 /\ message' = message
           ELSE IF ~HandlerSends(e, payload)
           THEN /\ log' = Append(log, "handle")
                /\ pc' = "done" /\ status' = 200 /\ message' = message
           ELSE /\ log' = log \o <<"handle", "send_message">>
                /\ pc' = "send_message" /\ status' = status
                /\ message' = HandlerMessage(e, payload)
    /\ UNCHANGED <<secret, request, sigOk, payload, text, messages, idx, outbound>>

\* send_message has returned to the handler, which returns; line 266.
Respond ==
    /\ pc = "returned"
    /\ pc' = "done"
    /\ status' = 200
    /\ UNCHANGED <<secret, request, sigOk, payload, message, text, messages, idx,
                   outbound, log>>

\* The response is sent; nothing of the request is kept for the next one.
Finish ==
    /\ pc = "done"
    /\ pc' = "idle"
    /\ request' = NoRequest
    /\ sigOk' = FALSE
    /\ payload' = NoPayload
    /\ message' = <<>>
    /\ text' = <<>>
    /\ messages' = <<>>
    /\ idx' = 1
    /\ outbound' = <<>>
    /\ status' = 0
    /\ log' = <<>>
    /\ UNCHANGED secret

Init ==
    /\ secret \in Secrets
    /\ pc = "idle"
    /\ request = NoRequest
    /\ sigOk = FALSE
    /\ payload = NoPayload
    /\ message = <<>>
    /\ text = <<>>
    /\ messages = <<>>
    /\ idx = 1
    /\ outbound = <<>>
    /\ status = 0
    /\ log = <<>>

Next ==
    \/ Receive
    \/ Verify
    \/ ParseJson
    \/ Dispatch
    \/ SendMessageEnter
    \/ SplitStep
    \/ SplitReturn
    \/ SendChunkOk
    \/ SendChunkFail
    \/ SendReturn
    \/ Respond
    \/ Finish

Spec == Init /\ [][Next]_vars

\* send_message called directly with any text.
InitSend ==
    /\ secret = "none"
    /\ pc = "send_message"
    /\ request = NoRequest
    /\ sigOk = FALSE
    /\ payload = NoPayload
    /\ message \in Texts
    /\ text = <<>>
    /\ messages = <<>>
    /\ idx = 1
    /\ outbound = <<>>
    /\ status = 0
    /\ log = <<>>

NextSend ==
    \/ SendMessageEnter
    \/ SplitStep
    \/ SplitReturn
    \/ SendChunkOk
    \/ SendChunkFail
    \/ SendReturn

SpecSend == InitSend /\ [][NextSend]_vars

----------------------------------------------------------------------------
(* Properties *)

\* The handler of the current request has called telegram_bot.send_message.
Handed == log # <<>> /\ log[Len(log)] = "send_message"

\* The request got past verification and its body parsed as JSON.
VerifiedAndParsed ==
    /\ pc \notin {"idle", "verify", "parse"}
    /\ sigOk
    /\ request.body.valid

OutboundTexts == [i \in 1..Len(outbound) |-> outbound[i].text]

SomeCallFailed == \E i \in 1..Len(outbound) : outbound[i].outcome # "ok"

\* C1: when send_message has returned from a text longer than the limit, every
\* chunk of the split has been attempted exactly once, in order, whatever
\* calls failed.
C1_EveryChunkAttempted ==
    (pc = "returned" /\ Len(message) > MAX_MESSAGE_LENGTH)
        => OutboundTexts = messages

\* C2: with a secret configured, verification succeeds exactly when the
\* signature header is "sha256=" + the hex HMAC of the body under the secret
\* (so not when the header is absent); with no secret it always succeeds.
C2_VerifyIffSignatureMatches ==
    pc \notin {"idle", "verify"} =>
        IF secret \in {"none", ""}
        THEN sigOk
        ELSE sigOk <=> request.signature = Signed("sha256=", secret, request.body)

TokensOf(s) == UNION {{s[i][j] : j \in 1..Len(s[i])} : i \in 1..Len(s)}

\* C3: the message for a closed, merged pull request starts with the tada
\* marker, reads "PR merged", and holds neither "closed" nor a closed-state
\* marker (x, white_check_mark).
C3_MergedWordingAndMarker ==
    (/\ Handed
     /\ request.event = "pull_request"
     /\ payload.action = "closed"
     /\ payload.merged)
        => /\ message[1][1] = "tada"
           /\ message[1][2] = " *PR "
           /\ message[1][3] = "merged"
           /\ TokensOf(message) \cap {"closed", "x", "white_check_mark"} = {}

\* C4: a request whose signature fails verification is answered 401 right
\* after the verification: its body is not parsed, no handler runs, no
\* outbound call is made; and nothing is parsed, dispatched or sent before a
\* successful verification.
C4_BadSignatureStopsRequest ==
    /\ (pc \notin {"idle", "verify"} /\ ~sigOk) =>
           /\ pc = "done"
           /\ status = 401
           /\ log = <<"verify">>
           /\ outbound = <<>>
    /\ status = 401 => ~sigOk
    /\ \A i \in 1..Len(log) :
           log[i] # "verify" => (sigOk /\ \E j \in 1..(i - 1) : log[j] = "verify")

C4_Witness ==
    /\ pc = "done"
    /\ status = 401
    /\ request.event = "push"
    /\ request.body.valid
    /\ request.signature.kind = "value"

\* C5: a verified request whose body is not valid JSON is answered 400; no
\* handler runs and no outbound call is made.
C5_InvalidJsonIs400 ==
    (pc \notin {"idle", "verify", "parse"} /\ sigOk /\ ~request.body.valid) =>
        /\ pc = "done"
        /\ status = 400
        /\ log = <<"verify", "parse">>
        /\ outbound = <<>>

C5_Witness ==
    /\ pc = "done"
    /\ status = 400
    /\ sigOk
    /\ request.event = "push"

C7_ChunksWithinLimitAndReassemble ==
    (pc \in {"send", "returned"} /\ Len(message) > MAX_MESSAGE_LENGTH) =>
        /\ \A i \in 1..Len(messages) : Len(messages[i]) <= MAX_MESSAGE_LENGTH
        /\ Reassembles(messages, message)

C7_Witness ==
    /\ pc = "returned"
    /\ Len(message) > MAX_MESSAGE_LENGTH
    /\ Len(messages) >= 2
    /\ Len(Concat(messages)) < Len(message)
    /\ \E i \in 1..Len(messages) : Len(messages[i]) = MAX_MESSAGE_LENGTH

IsCommitLine(u) == u[1] = "* "

IsMoreLine(u) == u[1] = "... and "

\* C8: the message of a push with n commits holds the commit lines of the
\* first min(n, 5) commits, in order; for n > 5 exactly one summary line,
\* stating n - 5, right after the fifth commit line; for n <= 5 no summary.
C8_FiveCommitLinesAndRemainder ==
    (Handed /\ request.event = "push") =>
        LET n == payload.ncommits
            lines == SelectSeq(message, IsCommitLine)
            more == SelectSeq(message, IsMoreLine)
        IN  /\ lines = [i \in 1..Min(n, 5) |-> CommitLine(Commits(n)[i])]
            /\ more = IF n > 5 THEN <<MoreLine(n - 5)>> ELSE <<>>
            /\ \A i \in 1..Len(message) :
                   IsMoreLine(message[i]) =>
                       /\ i > 2
                       /\ message[i - 2] = CommitLine(Commits(n)[5])

C8_Witness ==
    /\ Handed
    /\ request.event = "push"
    /\ payload.ncommits = 7
    /\ pc = "done"

\* The cases in which no notification is due.
NoNotificationDue ==
    \/ request.event \notin Handled
    \/ request.event = "release" /\ payload.action # "published"
    \/ request.event = "star" /\ payload.action # "created"

C10_ChunksNonEmpty ==
    Len(message) > MAX_MESSAGE_LENGTH =>
        /\ pc = "split" => Len(text) + Len(messages) <= Len(message)
        /\ \A i \in 1..Len(messages) : messages[i] # <<>>
        /\ \A i \in 1..Len(outbound) : outbound[i].text # <<>>

\* The remaining text of _split_message strictly shrinks on every iteration.
SplitShrinks == [][SplitStep => Len(text') < Len(text)]_vars

====
